---- MODULE Spec2Model ----
(***************************************************************************)
(* customFetch (src/custom-fetch.js): a wrapper around the platform fetch  *)
(* with a timeout enforced through an AbortController, body parsing per    *)
(* responseType and success/error callbacks.                               *)
(*                                                                         *)
(* One invocation is a record of `calls`; the platform's timer table and   *)
(* the abort flags of the controllers are separate variables.  The event   *)
(* loop is single threaded: everything the code does between two awaits    *)
(* (and the microtasks that follow a task) is one action.                  *)
(***************************************************************************)
EXTENDS Integers, Sequences, FiniteSets

VARIABLES calls, timers, aborted

vars == <<calls, timers, aborted>>

(* ------------------------------ bounds --------------------------------- *)

NumCalls == 2        \* invocations that may be in flight together
MaxTimeout == 1      \* largest timeout option, in milliseconds

Calls == 1..NumCalls

(* ------------------------------ values --------------------------------- *)

\* An option the caller left out is <<>>, a supplied one is <<v>>.
Omitted == <<>>

\* `= default` of the destructuring pattern.
Default(o, d) == IF o = Omitted THEN d ELSE o[1]

Null == 0

Undefined == [kind |-> "undefined", of |-> ""]

Err(name) == [kind |-> "error", of |-> name]

Str(s) == [kind |-> "string", of |-> s]

Bodies == {"[1]", "<html>"}

ValidJson(b) == b = "[1]"

Response(ok, body) == [ok |-> ok, body |-> body]

NoResponse == [ok |-> FALSE, body |-> ""]

\* The raw response object as a callback argument.
Raw(r) == [kind |-> IF r.ok THEN "response-ok" ELSE "response-not-ok", of |-> r.body]

Event(op, arg) == [op |-> op, arg |-> arg]

(* ------------------------------ options -------------------------------- *)

Options ==
    [ method          : {Omitted},
      responseType    : {Omitted, <<"json">>, <<"text">>, <<"blob">>, <<"xml">>},
      data            : {Omitted, <<"object">>, <<"circular">>},
      timeout         : {Omitted} \cup {<<t>> : t \in 0..MaxTimeout},
      successCallback : {Omitted} \cup {<<"returns">>, <<"throws">>},
      errorCallback   : {Omitted} \cup {<<"returns">>, <<"throws">>} ]

\* The options of concurrent invocations: every option supplied.
ConcOptions ==
    [ method          : {<<"GET">>},
      responseType    : {<<"json">>},
      data            : {<<"object">>},
      timeout         : {<<t>> : t \in 0..MaxTimeout},
      successCallback : {<<"returns">>},
      errorCallback   : {<<"throws">>} ]

NoOptions ==
    [ method |-> Omitted, responseType |-> Omitted, data |-> Omitted,
      timeout |-> Omitted, successCallback |-> Omitted, errorCallback |-> Omitted ]

Method(o) == Default(o.method, "POST")

ResponseType(o) == Default(o.responseType, "json")

Data(o) == Default(o.data, "null")

Timeout(o) == Default(o.timeout, 0)

SuccessCallback(o) == Default(o.successCallback, "null")

ErrorCallback(o) == Default(o.errorCallback, "null")

(* ------------------------------ timers --------------------------------- *)

\* setTimeout returns a handle that is a positive integer, unique per timer;
\* an invocation creates at most one timer, which gets the invocation's index.
TimerHandle(i) == i

NoTimer == [state |-> "unset", remaining |-> 0, controller |-> 0]

setTimeout(ts, h, controller, delay) ==
    [ts EXCEPT ![h] = [state |-> "pending", remaining |-> delay, controller |-> controller]]

clearTimeout(ts, h) ==
    IF ts[h].state = "pending"
    THEN [ts EXCEPT ![h] = [@ EXCEPT !.state = "cleared", !.remaining = 0]]
    ELSE ts

\* Fault: the timer is never cleared.
cleanupTimeoutSkipped(ts, timeoutId) == ts

cleanupTimeout(ts, timeoutId) ==
    IF timeoutId # Null THEN clearTimeout(ts, timeoutId) ELSE ts

\* Fault: a timer is created whatever the timeout.
HasTimerAlways(timeout) == TRUE

\* Fault: no timer is created whatever the timeout.
HasTimerNever(timeout) == FALSE

\* `timeout ? setTimeout(...) : null`: whether a timer is created.
HasTimer(timeout) == timeout # 0

\* Fault: the timer is cleared as soon as the response arrives.
FinallyEarly(c, ts) ==
    IF c.pc # "fetching" /\ c.timeoutId # Null THEN clearTimeout(ts, c.timeoutId) ELSE ts

\* The finally block: it runs when the body of customFetch completes, not
\* while it is suspended at an await.
Finally(c, ts) ==
    IF c.pc \in {"resolved", "rejected"} THEN cleanupTimeout(ts, c.timeoutId) ELSE ts

(* ------------------------------ helpers -------------------------------- *)

NoRequest == [method |-> "", body |-> Omitted, signal |-> 0]

\* JSON.stringify throws a TypeError on a circular structure.
StringifyThrows(data) == data = "circular"

\* Fault: every request carries the signal of one module-level controller.
createRequestConfigShared(method, data, controller) ==
    [ method |-> method,
      body   |-> IF data # "null" THEN <<"{\"name\":\"John\"}">> ELSE Omitted,
      signal |-> 1 ]

createRequestConfig(method, data, controller) ==
    [ method |-> method,
      body   |-> IF data # "null" THEN <<"{\"name\":\"John\"}">> ELSE Omitted,
      signal |-> controller ]

ParserTypes == {"json", "text", "blob"}

\* Whether decoding body b as responseType ty succeeds.
Parses(ty, b) == ty = "json" => ValidJson(b)

parseResponse(r, ty) ==
    CASE ty = "json" -> [kind |-> "object", of |-> r.body]
      [] ty = "text" -> [kind |-> "string", of |-> r.body]
      [] ty = "blob" -> [kind |-> "blob", of |-> r.body]

\* Fault: the error is logged and alerted but not thrown again.
handleErrorSwallowed(c, error) ==
    [c EXCEPT
       !.events = @ \o <<Event("console.error", error)>>
                    \o (IF error.of = "AbortError"
                        THEN <<Event("console.error", Str("Request timeout"))>>
                        ELSE <<>>)
                    \o <<Event("alert", error)>>,
       !.pc = "resolved",
       !.value = Undefined]

handleError(c, error) ==
    [c EXCEPT
       !.events = @ \o <<Event("console.error", error)>>
                    \o (IF error.of = "AbortError"
                        THEN <<Event("console.error", Str("Request timeout"))>>
                        ELSE <<>>)
                    \o <<Event("alert", error)>>,
       !.pc = "rejected",
       !.value = error]

\* Fault: a not-ok status is thrown as an error.
handleNotOkThrows(c, r) == handleError(c, Err("HttpError"))

\* The not-ok branch of handleResponse.
handleNotOk(c, r) ==
    LET cb == ErrorCallback(c.options)
        called == IF cb # "null"
                  THEN [c EXCEPT !.events = @ \o <<Event("errorCallback", Raw(r))>>]
                  ELSE c
    IN  IF cb = "throws"
        THEN handleError(called, Err("CallbackError"))
        ELSE [called EXCEPT !.pc = "resolved", !.value = Undefined]

\* Fault: successCallback receives the raw response, not the parsed body.
handleParsedRaw(c, responseData) ==
    LET cb == SuccessCallback(c.options)
        called == IF cb # "null"
                  THEN [c EXCEPT !.events = @ \o <<Event("successCallback", Raw(c.response))>>]
                  ELSE c
    IN  IF cb = "throws"
        THEN handleError(called, Err("CallbackError"))
        ELSE [called EXCEPT !.pc = "resolved", !.value = responseData]

\* handleResponse once the body is parsed.
handleParsed(c, responseData) ==
    LET cb == SuccessCallback(c.options)
        called == IF cb # "null"
                  THEN [c EXCEPT !.events = @ \o <<Event("successCallback", responseData)>>]
                  ELSE c
    IN  IF cb = "throws"
        THEN handleError(called, Err("CallbackError"))
        ELSE [called EXCEPT !.pc = "resolved", !.value = responseData]

IdleCall ==
    [ pc |-> "idle", options |-> NoOptions, transport |-> "live",
      timeoutId |-> Null, request |-> NoRequest, response |-> NoResponse,
      responseData |-> Undefined, events |-> <<>>, value |-> Undefined ]

InFlight(c) == c.pc \in {"fetching", "parsing"}

Settled(c) == c.pc \in {"resolved", "rejected"}

(* ------------------------------ actions -------------------------------- *)

Init ==
    /\ calls = [i \in Calls |-> IdleCall]
    /\ timers = [h \in Calls |-> NoTimer]
    /\ aborted = [c \in Calls |-> FALSE]

\* customFetch up to `await fetch(...)`.
Start(i, o, transport) ==
    /\ calls[i].pc = "idle"
    /\ LET timeoutId == IF HasTimer(Timeout(o)) THEN TimerHandle(i) ELSE Null
           armed == IF HasTimer(Timeout(o))
                    THEN setTimeout(timers, TimerHandle(i), i, Timeout(o))
                    ELSE timers
           c == [calls[i] EXCEPT !.options = o, !.transport = transport,
                                 !.timeoutId = timeoutId]
           next == IF StringifyThrows(Data(o))
                   THEN handleError(c, Err("TypeError"))
                   ELSE [c EXCEPT !.pc = "fetching",
                                  !.request = createRequestConfig(Method(o), Data(o), i)]
       IN  /\ calls' = [calls EXCEPT ![i] = next]
           /\ timers' = Finally(next, armed)
    /\ UNCHANGED aborted

\* One millisecond passes.
Tick ==
    /\ \E h \in Calls : timers[h].state = "pending" /\ timers[h].remaining > 0
    /\ timers' = [h \in Calls |->
                    IF timers[h].state = "pending" /\ timers[h].remaining > 0
                    THEN [timers[h] EXCEPT !.remaining = @ - 1]
                    ELSE timers[h]]
    /\ UNCHANGED <<calls, aborted>>

\* Fault: the timer's callback aborts nothing.
ListeningNone(k) == {}

\* The requests whose signal belongs to controller k and that are in flight.
Listening(k) == {j \in Calls : InFlight(calls[j]) /\ calls[j].request.signal = k}

\* The finally blocks of the invocations js, whose records are now cs.
RECURSIVE FinallyAll(_, _, _)
FinallyAll(cs, ts, js) ==
    IF js = {} THEN ts
    ELSE LET j == CHOOSE x \in js : TRUE
         IN  FinallyAll(cs, Finally(cs[j], ts), js \ {j})

\* The timer's callback, () => controller.abort(): the pending fetch or body
\* read of that signal rejects with an AbortError.
TimerFire(h) ==
    /\ timers[h].state = "pending"
    /\ timers[h].remaining = 0
    /\ LET k == timers[h].controller
           fired == [timers EXCEPT ![h] = [@ EXCEPT !.state = "fired"]]
           rejected == [j \in Calls |->
                          IF j \in Listening(k)
                          THEN handleError(calls[j], Err("AbortError"))
                          ELSE calls[j]]
       IN  /\ aborted' = [aborted EXCEPT ![k] = TRUE]
           /\ calls' = rejected
           /\ timers' = FinallyAll(rejected, fired, Listening(k))

\* fetch resolves with a response.
FetchResolve(i, ok, body) ==
    /\ calls[i].pc = "fetching"
    /\ calls[i].transport = "live"
    /\ LET r == Response(ok, body)
           c == [calls[i] EXCEPT !.response = r]
           ty == ResponseType(c.options)
           next == IF ~ok THEN handleNotOk(c, r)
                   ELSE IF ty \notin ParserTypes THEN handleError(c, Err("TypeError"))
                   ELSE [c EXCEPT !.pc = "parsing"]
       IN  /\ calls' = [calls EXCEPT ![i] = next]
           /\ timers' = Finally(next, timers)
    /\ UNCHANGED aborted

\* fetch rejects: the connection failed.
FetchReject(i) ==
    /\ calls[i].pc = "fetching"
    /\ calls[i].transport = "live"
    /\ calls' = [calls EXCEPT ![i] = handleError(calls[i], Err("TypeError"))]
    /\ timers' = Finally(calls'[i], timers)
    /\ UNCHANGED aborted

\* The body is read and decoded.
ParseResolve(i) ==
    /\ calls[i].pc = "parsing"
    /\ Parses(ResponseType(calls[i].options), calls[i].response.body)
    /\ LET responseData == parseResponse(calls[i].response, ResponseType(calls[i].options))
       IN  calls' = [calls EXCEPT ![i] =
              handleParsed([calls[i] EXCEPT !.responseData = responseData], responseData)]
    /\ timers' = Finally(calls'[i], timers)
    /\ UNCHANGED aborted

\* Decoding fails (SyntaxError) or the connection breaks while the body is read (TypeError).
ParseReject(i, name) ==
    /\ calls[i].pc = "parsing"
    /\ name = "SyntaxError" => ~Parses(ResponseType(calls[i].options), calls[i].response.body)
    /\ calls' = [calls EXCEPT ![i] = handleError(calls[i], Err(name))]
    /\ timers' = Finally(calls'[i], timers)
    /\ UNCHANGED aborted

Transports == {"live", "silent"}

\* No other invocation exists.
Alone(i) == \A j \in Calls \ {i} : calls[j].pc = "idle"

Step(i) ==
    \/ \E ok \in BOOLEAN, body \in Bodies : FetchResolve(i, ok, body)
    \/ FetchReject(i)
    \/ ParseResolve(i)
    \/ \E name \in {"SyntaxError", "TypeError"} : ParseReject(i, name)

Next ==
    \/ \E i \in Calls, o \in Options, t \in Transports : Alone(i) /\ Start(i, o, t)
    \/ \E i \in Calls : Step(i)
    \/ Tick
    \/ \E h \in Calls : TimerFire(h)

Spec == Init /\ [][Next]_vars

ConcNext ==
    \/ \E i \in Calls, o \in ConcOptions, t \in Transports : Start(i, o, t)
    \/ \E i \in Calls : Step(i)
    \/ Tick
    \/ \E h \in Calls : TimerFire(h)

ConcSpec == Init /\ [][ConcNext]_vars

\* The event loop runs every task that is ready: time passes, a timer whose
\* delay has elapsed fires, and a transport that is live settles what it is
\* asked.  A silent transport never answers.
Fairness ==
    /\ WF_vars(Tick)
    /\ \A h \in Calls : WF_vars(TimerFire(h))
    /\ \A i \in Calls : WF_vars(Step(i))

FairSpec == Spec /\ Fairness

(* ------------------------------ properties ----------------------------- *)

Responded(c) == c.response # NoResponse

ParseSucceeded(c) == c.responseData # Undefined

EventsOf(c, op) == SelectSeq(c.events, LAMBDA e : e.op = op)

Count(c, op) == Len(EventsOf(c, op))

AbortError == [kind |-> "error", of |-> "AbortError"]

\* The body b decoded as responseType ty.
Decoded(ty, b) ==
    [kind |-> (CASE ty = "json" -> "object" [] ty = "text" -> "string" [] ty = "blob" -> "blob"),
     of |-> b]

\* The events of the failure path for error e.
FailureEvents(e) ==
    IF e = AbortError
    THEN << [op |-> "console.error", arg |-> e],
            [op |-> "console.error", arg |-> [kind |-> "string", of |-> "Request timeout"]],
            [op |-> "alert", arg |-> e] >>
    ELSE << [op |-> "console.error", arg |-> e], [op |-> "alert", arg |-> e] >>

C2_OkResolvesParsed ==
    \A i \in Calls :
        LET c == calls[i]
            cb == SuccessCallback(c.options)
            v == Decoded(ResponseType(c.options), c.response.body)
        IN  (Responded(c) /\ c.response.ok /\ ParseSucceeded(c)) =>
              /\ c.pc = "resolved"
              /\ c.value = v
              /\ EventsOf(c, "successCallback") =
                    IF cb = "null" THEN <<>> ELSE << [op |-> "successCallback", arg |-> v] >>
              /\ Count(c, "errorCallback") = 0

\* C2 amended: the same, provided successCallback, if supplied, returns
\* normally; a successCallback that throws was still invoked exactly once
\* with the parsed value, and the invocation rejects with the callback's
\* error through the failure path.
C2_OkResolvesParsedUnlessCallbackThrows ==
    \A i \in Calls :
        LET c == calls[i]
            cb == SuccessCallback(c.options)
            v == Decoded(ResponseType(c.options), c.response.body)
            called == IF cb = "null" THEN <<>> ELSE << [op |-> "successCallback", arg |-> v] >>
        IN  (Responded(c) /\ c.response.ok /\ ParseSucceeded(c)) =>
              /\ ResponseType(c.options) \in {"json", "text", "blob"}
              /\ EventsOf(c, "successCallback") = called
              /\ Count(c, "errorCallback") = 0
              /\ cb # "throws" =>
                    /\ c.pc = "resolved"
                    /\ c.value = v
                    /\ c.events = called
              /\ cb = "throws" =>
                    /\ c.pc = "rejected"
                    /\ c.value = [kind |-> "error", of |-> "CallbackError"]
                    /\ c.events = called \o FailureEvents(c.value)

C2_Witness ==
    \E i \in Calls :
        /\ calls[i].response.ok
        /\ ParseSucceeded(calls[i])
        /\ SuccessCallback(calls[i].options) = "returns"
        /\ calls[i].pc = "resolved"
        /\ calls[i].value = [kind |-> "object", of |-> "[1]"]

\* C3: a rejected invocation rejects with an error that was logged first and
\* alerted exactly once, last (with the timeout message logged exactly when
\* the error is an AbortError); an invocation that resolved went through no
\* failure: nothing was logged or alerted, a response had arrived, and the
\* value is undefined for a not-ok status and the parsed body for an ok one;
\* an invocation that has not settled has logged and alerted nothing.
C3_FailuresRethrown ==
    \A i \in Calls :
        LET c == calls[i]
            n == Len(c.events)
            tail == FailureEvents(c.value)
        IN  /\ c.pc = "rejected" =>
                /\ c.value.kind = "error"
                /\ n >= Len(tail)
                /\ SubSeq(c.events, n - Len(tail) + 1, n) = tail
                /\ EventsOf(c, "alert") = << [op |-> "alert", arg |-> c.value] >>
                /\ Count(c, "console.error") = Len(tail) - 1
            /\ c.pc = "resolved" =>
                /\ Count(c, "alert") = 0
                /\ Count(c, "console.error") = 0
                /\ Responded(c)
                /\ ~c.response.ok => c.value = Undefined
                /\ c.response.ok => ParseSucceeded(c) /\ c.value = c.responseData
            /\ ~Settled(c) =>
                /\ Count(c, "alert") = 0
                /\ Count(c, "console.error") = 0

C3_Witness ==
    \E i \in Calls :
        /\ calls[i].pc = "rejected"
        /\ calls[i].value = [kind |-> "error", of |-> "SyntaxError"]
        /\ Count(calls[i], "alert") = 1

\* C4: an invocation with timeout > 0 waiting on a transport that never
\* responds is eventually rejected with the AbortError, its timer having
\* fired and its controller aborted; an invocation on such a transport never
\* resolves.
C4_TimeoutRejects ==
    /\ \A i \in Calls :
          (/\ calls[i].pc = "fetching"
           /\ calls[i].transport = "silent"
           /\ Timeout(calls[i].options) > 0)
          ~> (/\ calls[i].pc = "rejected"
              /\ calls[i].value = AbortError
              /\ timers[TimerHandle(i)].state = "fired"
              /\ aborted[i])
    /\ [](\A i \in Calls : calls[i].transport = "silent" => calls[i].pc # "resolved")

C4_Witness ==
    \E i \in Calls :
        /\ calls[i].transport = "silent"
        /\ Timeout(calls[i].options) > 0
        /\ calls[i].pc = "rejected"
        /\ calls[i].value = AbortError

\* C5: an invocation whose response has a not-ok status is rejected with an
\* error.
C5_HttpFailureThrows ==
    \A i \in Calls :
        (Responded(calls[i]) /\ ~calls[i].response.ok /\ Settled(calls[i])) =>
            /\ calls[i].pc = "rejected"
            /\ calls[i].value.kind = "error"

\* Once settled, an invocation never changes: it settles once, one way.
SettlesOnce == [][\A i \in Calls : Settled(calls[i]) => calls'[i] = calls[i]]_vars

\* C6 as stated: every invocation settles exactly once, and eventually,
\* whatever the timeout, the transport and the callbacks.
C6_AlwaysSettles ==
    /\ SettlesOnce
    /\ \A i \in Calls : (calls[i].pc # "idle") ~> Settled(calls[i])

\* C6 amended: every invocation settles at most once and never both ways;
\* it eventually settles when its timeout is positive or its transport
\* eventually answers.
C6_SettlesIfAnsweredOrTimed ==
    /\ SettlesOnce
    /\ \A i \in Calls :
          (/\ calls[i].pc # "idle"
           /\ (Timeout(calls[i].options) > 0 \/ calls[i].transport = "live"))
          ~> Settled(calls[i])

C6_Witness ==
    \E i \in Calls :
        /\ calls[i].pc = "rejected"
        /\ calls[i].transport = "silent"
        /\ Timeout(calls[i].options) > 0
        /\ Count(calls[i], "alert") = 1
        /\ timers[TimerHandle(i)].state = "fired"

\* C7: an invocation that has settled has no pending timer: the timer it
\* scheduled was cleared or had fired.
C7_TimerClearedOnExit ==
    \A i \in Calls :
        Settled(calls[i]) =>
            /\ timers[TimerHandle(i)].state # "pending"
            /\ Timeout(calls[i].options) > 0 =>
                  /\ calls[i].timeoutId = TimerHandle(i)
                  /\ timers[TimerHandle(i)].state \in {"cleared", "fired"}

C7_Witness ==
    \E i \in Calls :
        /\ calls[i].pc = "resolved"
        /\ Timeout(calls[i].options) > 0
        /\ timers[TimerHandle(i)].state = "cleared"

\* C8: an invocation with timeout 0, or none, has no timer and is never
\* cancelled: its controller is not aborted and it does not fail with an
\* AbortError.
C8_NoTimerWithoutTimeout ==
    \A i \in Calls :
        (calls[i].pc # "idle" /\ calls[i].options.timeout \in {<<>>, <<0>>}) =>
            /\ calls[i].timeoutId = Null
            /\ timers[TimerHandle(i)].state = "unset"
            /\ ~aborted[i]
            /\ calls[i].value # AbortError

C8_Witness ==
    \E i \in Calls :
        /\ calls[i].options.timeout = <<>>
        /\ calls[i].pc = "rejected"
        /\ calls[i].value = [kind |-> "error", of |-> "TypeError"]
        /\ Responded(calls[i])

\* C9: a step of one invocation changes nothing of another (not its record,
\* its timer or its controller), and an invocation is cancelled only by its
\* own timer: it fails with an AbortError, or its controller is aborted, only
\* when it has a positive timeout and its own timer fired.
C9_Independent ==
    /\ [][\A i \in Calls : calls'[i] # calls[i] =>
              \A j \in Calls \ {i} :
                  /\ calls'[j] = calls[j]
                  /\ timers'[TimerHandle(j)] = timers[TimerHandle(j)]
                  /\ aborted'[j] = aborted[j]]_vars
    /\ [](\A j \in Calls :
              (calls[j].value = AbortError \/ aborted[j]) =>
                  /\ Timeout(calls[j].options) > 0
                  /\ timers[TimerHandle(j)].state = "fired"
                  /\ calls[j].pc = "rejected")

C9_Witness ==
    \E i, j \in Calls :
        /\ i # j
        /\ calls[i].value = AbortError
        /\ aborted[i]
        /\ InFlight(calls[j])
        /\ ~aborted[j]

\* C10: while an invocation with a positive timeout is waiting for the
\* response or for the body, its timer is pending; when the timer fired
\* after the response arrived, the response was ok, the body was not parsed,
\* successCallback was not invoked, and the invocation is rejected with the
\* AbortError through the failure path.
C10_TimeoutCoversParsing ==
    \A i \in Calls :
        LET c == calls[i] IN
        /\ (InFlight(c) /\ Timeout(c.options) > 0) => timers[TimerHandle(i)].state = "pending"
        /\ (timers[TimerHandle(i)].state = "fired" /\ Responded(c)) =>
              /\ c.response.ok
              /\ ~ParseSucceeded(c)
              /\ c.pc = "rejected"
              /\ c.value = AbortError
              /\ c.events = FailureEvents(AbortError)

C10_Witness ==
    \E i \in Calls :
        /\ timers[TimerHandle(i)].state = "fired"
        /\ calls[i].response.ok
        /\ Responded(calls[i])
        /\ SuccessCallback(calls[i].options) = "returns"
        /\ calls[i].pc = "rejected"

====
